---- MODULE Spec2Model ----
(***************************************************************************)
(* Verification model of reddit_intent_leads: the cached fetcher           *)
(* (http_get_json), the search crawler (search_posts) and the comment tree *)
(* walker (fetch_comments) of src/reddit_intent_leads/reddit.py.           *)
(*                                                                         *)
(* Three specifications share the module:                                  *)
(*   SpecFetch  - one process calling http_get_json, attempt by attempt    *)
(*   SpecSearch - search_posts, one page request per step                  *)
(*   SpecWalk   - fetch_comments, one loop iteration of walk() per step    *)
(* Times are in tenths of a second (Sec(1) = 10).                          *)
(***************************************************************************)
EXTENDS Integers, Sequences, FiniteSets, TLC

VARIABLES
    \* ---- cached fetcher (http_get_json) ----
    server,     \* url -> raw body the server serves for it right now
    files,      \* cache key -> text of the cache file
    exists,     \* set of cache keys whose file exists
    fpc,        \* "idle" | "loop": position of the current call
    url,        \* argument url
    cache_dir,  \* argument cache_dir ("" is None)
    sleep_s,    \* argument sleep_s
    attempt,    \* loop variable of "for attempt in range(1, 6)"
    last_err,   \* local last_err
    reqs,       \* urlopen calls issued by the current (or last) call
    naps,       \* time.sleep calls taken by the current (or last) call
    log,        \* what the network answered to each urlopen of the call
    retKind,    \* "none" | "value" | "error": how the last call ended
    retVal,     \* value returned by the last call
    retErr,     \* exception raised by the last call
    warm,       \* was url fetched over the network with the cache before this call
    netOK,      \* urls fetched over the network with the cache directory set
    firstVal,   \* url -> value returned by that first network fetch
    ncalls,     \* calls started so far
    \* ---- search crawler (search_posts) ----
    subs,       \* argument subs
    limit,      \* argument limit
    use_cache,  \* is cache_dir set for the fetches of this crawl
    spc,        \* "while" | "done": position in search_posts
    si,         \* position of "for sub in subs" (1-based)
    after,      \* local after ("" is None)
    out,        \* local out
    result,     \* the returned list
    pages,      \* the cache as search_posts sees it: url -> parsed listing
    cachedUrls, \* urls that have a cache file
    lastFetch,  \* "none" | "error" | "page": how the latest fetch ended
    lastPage,   \* the listing the latest successful fetch returned
    nfetch,     \* fetches issued so far, modulo 2
    failedAt,   \* positions in subs whose paging ended on a failed fetch
    \* ---- comment tree walker (fetch_comments) ----
    tree,         \* the comment nodes of the thread, node i at position i
    max_comments, \* argument max_comments
    wpc,          \* "fetch" | "loop" | "back" | "finish" | "done" ("raised": an exception left fetch_comments)
    stack,        \* the active calls of walk(): [nodes, i], innermost last
    wout,         \* nonlocal out
    wresult,      \* the returned list
    visited,      \* nodes taken by "for n in nodes", in order
    thread,       \* "none" | "error" | "notlist" | "short" | "ok": the fetched value
    \* ---- intent scorer (score_intent) ----
    text,         \* argument text: the words and phrases that occur in it
    scpc,         \* "pos" | "neg" | "floor" | "done": position in score_intent
    ri,           \* position of the running "for name, rx, w in ..." (1-based)
    s_acc,        \* local s, a double
    signals,      \* local signals
    ir,           \* the returned IntentResult
    \* ---- aggregator (scan) ----
    page,             \* the value the search fetch returned
    after_utc,        \* local after_utc
    include_comments, \* option include_comments
    min_intent,       \* option min_intent, a double
    comment_cap,      \* option max_comments
    apc,              \* "search" | "post" | "comments" | "comment" | "sort" | "done" | "raised"
    posts,            \* local posts
    pidx,             \* position of "for p in posts" (1-based)
    comments,         \* local comments
    cidx,             \* position of "for c in comments" (1-based)
    leads,            \* local leads
    emitted,          \* leads as it was before the sort
    fetched,          \* position in posts -> what fetch_comments returned for it
    \* ---- two runs fetching one url with one cache directory ----
    cexists,    \* os.path.exists(cache_path)
    cdata,      \* the content of the cache file
    rpc,        \* run -> "exists" | "load" | "request" | "open" | "dump" | "return" | "done"
    robj,       \* run -> local obj
    roff,       \* run -> position of its file object in the cache file
    rret,       \* run -> [kind, val]: how its call ended
    closed      \* the runs that wrote the file, in the order they closed it

fvars == <<server, files, exists, fpc, url, cache_dir, sleep_s, attempt,
           last_err, reqs, naps, log, retKind, retVal, retErr, warm, netOK,
           firstVal, ncalls>>

svars == <<subs, limit, use_cache, spc, si, after, out, result, pages,
           cachedUrls, lastFetch, lastPage, nfetch, failedAt>>

wvars == <<tree, max_comments, wpc, stack, wout, wresult, visited, thread>>

scvars == <<text, scpc, ri, s_acc, signals, ir>>

avars == <<page, after_utc, include_comments, min_intent, comment_cap, apc,
           posts, pidx, comments, cidx, leads, emitted, fetched>>

pvars == <<cexists, cdata, rpc, robj, roff, rret, closed>>

notFetch == <<svars, wvars, scvars, avars, pvars>>
notSearch == <<fvars, wvars, scvars, avars, pvars>>
notWalk == <<fvars, svars, scvars, avars, pvars>>
notScore == <<fvars, svars, wvars, avars, pvars>>
notScan == <<fvars, svars, wvars, scvars, pvars>>
notRuns == <<fvars, svars, wvars, scvars, avars>>

vars == <<fvars, svars, wvars, scvars, avars, pvars>>

----------------------------------------------------------------------------
(* Bounds *)
MaxCalls == 3
MaxDelay == 1

(* Program constants *)
MaxAttempts == 5
BackoffCap == 60
BackoffFactor == 5

Sec(n) == n * 10

Min(a, b) == IF a < b THEN a ELSE b
Max(a, b) == IF a > b THEN a ELSE b

RECURSIVE Pow2(_)
Pow2(n) == IF n <= 0 THEN 1 ELSE 2 * Pow2(n - 1)

Urls == {"u1", "u2"}
CacheDirs == {"", "cache"}
Delays == {Sec(n) : n \in 0..MaxDelay}

----------------------------------------------------------------------------
(* JSON text <-> value.  A text is a sequence of one-character tokens, a   *)
(* value is a sequence of integers (a JSON array of digits).               *)

Digits == {"0", "1", "2"}
DigitVal(c) == CASE c = "0" -> 0 [] c = "1" -> 1 [] c = "2" -> 2
DigitChr(n) == CASE n = 0 -> "0" [] n = 1 -> "1" [] n = 2 -> "2"

RECURSIVE NoSpace(_)
NoSpace(t) ==
    IF t = <<>> THEN <<>>
    ELSE IF Head(t) = " " THEN NoSpace(Tail(t))
    ELSE <<Head(t)>> \o NoSpace(Tail(t))

\* items of "[d,d,...]" once the brackets are removed: d ("," d)*
RECURSIVE ItemsOK(_)
ItemsOK(t) ==
    IF t = <<>> THEN FALSE
    ELSE IF Head(t) \notin Digits THEN FALSE
    ELSE IF Len(t) = 1 THEN TRUE
    ELSE t[2] = "," /\ ItemsOK(SubSeq(t, 3, Len(t)))

RECURSIVE ItemsVal(_)
ItemsVal(t) ==
    IF t = <<>> THEN <<>>
    ELSE IF Len(t) = 1 THEN <<DigitVal(t[1])>>
    ELSE <<DigitVal(t[1])>> \o ItemsVal(SubSeq(t, 3, Len(t)))

\* json.loads succeeds on raw
JsonOK(raw) ==
    LET t == NoSpace(raw) IN
        /\ Len(t) >= 2
        /\ t[1] = "[" /\ t[Len(t)] = "]"
        /\ (Len(t) = 2 \/ ItemsOK(SubSeq(t, 2, Len(t) - 1)))

\* json.loads(raw) / json.load(f), for JsonOK(raw)
json_loads(raw) ==
    LET t == NoSpace(raw) IN
        IF Len(t) = 2 THEN <<>> ELSE ItemsVal(SubSeq(t, 2, Len(t) - 1))

\* json.dump(obj, f): default separators ", "
RECURSIVE DumpItems(_)
DumpItems(v) ==
    IF v = <<>> THEN <<>>
    ELSE IF Len(v) = 1 THEN <<DigitChr(v[1])>>
    ELSE <<DigitChr(v[1]), ",", " ">> \o DumpItems(Tail(v))

json_dump(obj) == <<"[">> \o DumpItems(obj) \o <<"]">>

\* bodies the server may serve
Bodies == {
    <<"[", "1", ",", "2", "]">>,
    <<"[", " ", "1", ",", " ", "2", " ", "]">>,
    <<"[", "0", "]">>,
    <<"[", "1", ",">> }

----------------------------------------------------------------------------
(* Exceptions: the text of str(e) as a sequence of words *)

Outcomes == {"200", "429", "500", "neterr"}

ErrMsg(o) ==
    CASE o = "429"    -> <<"HTTP Error", "429", "Too Many Requests">>
      [] o = "500"    -> <<"HTTP Error", "500", "Internal Server Error">>
      [] o = "neterr" -> <<"urlopen error", "timed out">>
      [] o = "json"   -> <<"Expecting value">>

\* "HTTP Error 429" in msg
Is429(msg) ==
    \E i \in 1..(Len(msg) - 1) : msg[i] = "HTTP Error" /\ msg[i + 1] = "429"

NoErr == [msg |-> <<>>, attempt |-> 0]

\* _sha1(url): the cache file name
_sha1(u) == CASE u = "u1" -> "5f2b" [] u = "u2" -> "a91c"
Keys == {_sha1(u) : u \in Urls}

\* min(60.0, (sleep_s * 5) * (2 ** (attempt - 1)))
BackoffMutant(s, k) == Min(Sec(BackoffCap), (s * BackoffFactor) * Pow2(k))
Backoff(s, k) == Min(Sec(BackoffCap), (s * BackoffFactor) * Pow2(k - 1))

\* random.uniform(0.0, 1.0) and random.uniform(0.0, sleep_s * 0.3)
BackoffJitters == {0, Sec(1)}
PoliteJitters(s) == {0, (s * 3) \div 10}

----------------------------------------------------------------------------
FetchInit ==
    /\ server \in [Urls -> Bodies]
    /\ files = [k \in Keys |-> <<>>]
    /\ exists = {}
    /\ fpc = "idle"
    /\ url = "u1"
    /\ cache_dir = ""
    /\ sleep_s = 0
    /\ attempt = 0
    /\ last_err = NoErr
    /\ reqs = 0
    /\ naps = <<>>
    /\ log = <<>>
    /\ retKind = "none"
    /\ retVal = <<>>
    /\ retErr = NoErr
    /\ warm = FALSE
    /\ netOK = {}
    /\ firstVal = [u \in Urls |-> <<>>]
    /\ ncalls = 0

----------------------------------------------------------------------------
(* http_get_json *)

\* (variant: one cache file for every url)
KeyMutant == CHOOSE k \in Keys : TRUE

Key == _sha1(url)

\* the call returns obj
Return(obj) ==
    /\ fpc' = "idle"
    /\ retKind' = "value"
    /\ retVal' = obj
    /\ retErr' = NoErr

\* the call raises e
Raise(e) ==
    /\ fpc' = "idle"
    /\ retKind' = "error"
    /\ retVal' = <<>>
    /\ retErr' = e

\* (variant: the politeness delay is slept on a cache hit too)
CallMutant(u, cd, s) ==
    /\ UNCHANGED notFetch
    /\ fpc = "idle"
    /\ ncalls < MaxCalls
    /\ ncalls' = ncalls + 1
    /\ url' = u
    /\ cache_dir' = cd
    /\ sleep_s' = s
    /\ reqs' = 0
    /\ log' = <<>>
    /\ last_err' = NoErr
    /\ warm' = (cd # "" /\ u \in netOK)
    /\ IF cd # "" /\ _sha1(u) \in exists
       THEN /\ attempt' = 0
            /\ naps' = <<[why |-> "polite", attempt |-> 0,
                          base |-> Max(0, s), jitter |-> 0]>>
            /\ IF JsonOK(files[_sha1(u)])
               THEN Return(json_loads(files[_sha1(u)]))
               ELSE Raise([msg |-> ErrMsg("json"), attempt |-> 0])
       ELSE /\ attempt' = 1
            /\ naps' = <<>>
            /\ fpc' = "loop"
            /\ retKind' = "none"
            /\ retVal' = <<>>
            /\ retErr' = NoErr
    /\ UNCHANGED <<server, files, exists, netOK, firstVal>>

\* lines 25-38: entry, cache lookup, request construction
Call(u, cd, s) ==
    /\ UNCHANGED notFetch
    /\ fpc = "idle"
    /\ ncalls < MaxCalls
    /\ ncalls' = ncalls + 1
    /\ url' = u
    /\ cache_dir' = cd
    /\ sleep_s' = s
    /\ reqs' = 0
    /\ naps' = <<>>
    /\ log' = <<>>
    /\ last_err' = NoErr
    /\ warm' = (cd # "" /\ u \in netOK)
    /\ IF cd # "" /\ _sha1(u) \in exists
       THEN /\ attempt' = 0
            /\ IF JsonOK(files[_sha1(u)])
               THEN Return(json_loads(files[_sha1(u)]))
               ELSE Raise([msg |-> ErrMsg("json"), attempt |-> 0])
       ELSE /\ attempt' = 1
            /\ fpc' = "loop"
            /\ retKind' = "none"
            /\ retVal' = <<>>
            /\ retErr' = NoErr
    /\ UNCHANGED <<server, files, exists, netOK, firstVal>>

\* lines 41-49: the request is answered 2xx with a body that parses
RequestOKMutant(j) ==
    /\ UNCHANGED notFetch
    /\ fpc = "loop"
    /\ JsonOK(server[url])
    /\ j \in PoliteJitters(sleep_s)
    /\ reqs' = reqs + 1
    /\ log' = Append(log, "200")
    /\ UNCHANGED <<files, exists>>
    /\ naps' = Append(naps, [why |-> "polite", attempt |-> attempt,
                             base |-> Max(0, sleep_s), jitter |-> j])
    /\ IF cache_dir # "" /\ url \notin netOK
       THEN /\ netOK' = netOK \cup {url}
            /\ firstVal' = [firstVal EXCEPT ![url] = json_loads(server[url])]
       ELSE UNCHANGED <<netOK, firstVal>>
    /\ Return(json_loads(server[url]))
    /\ UNCHANGED <<server, url, cache_dir, sleep_s, attempt, last_err, warm, ncalls>>

RequestOK(j) ==
    /\ UNCHANGED notFetch
    /\ fpc = "loop"
    /\ JsonOK(server[url])
    /\ j \in PoliteJitters(sleep_s)
    /\ reqs' = reqs + 1
    /\ log' = Append(log, "200")
    /\ IF cache_dir # ""
       THEN /\ files' = [files EXCEPT ![Key] = json_dump(json_loads(server[url]))]
            /\ exists' = exists \cup {Key}
       ELSE UNCHANGED <<files, exists>>
    /\ naps' = Append(naps, [why |-> "polite", attempt |-> attempt,
                             base |-> Max(0, sleep_s), jitter |-> j])
    /\ IF cache_dir # "" /\ url \notin netOK
       THEN /\ netOK' = netOK \cup {url}
            /\ firstVal' = [firstVal EXCEPT ![url] = json_loads(server[url])]
       ELSE UNCHANGED <<netOK, firstVal>>
    /\ Return(json_loads(server[url]))
    /\ UNCHANGED <<server, url, cache_dir, sleep_s, attempt, last_err, warm, ncalls>>

\* lines 50-57, "raise": the attempt fails and str(e) has no "HTTP Error 429"
\* (o = "200" is a 2xx answer whose body json.loads rejects)
RequestFailMutant(o) ==
    /\ UNCHANGED notFetch
    /\ fpc = "loop"
    /\ o \in {"200", "500", "neterr"}
    /\ o = "200" => ~JsonOK(server[url])
    /\ reqs' = reqs + 1
    /\ log' = Append(log, IF o = "200" THEN "json" ELSE o)
    /\ last_err' = [msg |-> ErrMsg(IF o = "200" THEN "json" ELSE o), attempt |-> attempt]
    /\ IF attempt < MaxAttempts
       THEN /\ attempt' = attempt + 1
            /\ UNCHANGED <<fpc, retKind, retVal, retErr>>
       ELSE Raise(last_err')
    /\ UNCHANGED <<server, files, exists, url, cache_dir, sleep_s, naps, warm,
                   netOK, firstVal, ncalls>>

RequestFail(o) ==
    /\ UNCHANGED notFetch
    /\ fpc = "loop"
    /\ o \in {"200", "500", "neterr"}
    /\ o = "200" => ~JsonOK(server[url])
    /\ ~Is429(ErrMsg(IF o = "200" THEN "json" ELSE o))
    /\ reqs' = reqs + 1
    /\ log' = Append(log, IF o = "200" THEN "json" ELSE o)
    /\ last_err' = [msg |-> ErrMsg(IF o = "200" THEN "json" ELSE o), attempt |-> attempt]
    /\ Raise(last_err')
    /\ UNCHANGED <<server, files, exists, url, cache_dir, sleep_s, attempt, naps,
                   warm, netOK, firstVal, ncalls>>

\* lines 50-56 and 59-60: the attempt is answered 429; back off, then retry
\* or, after the last attempt, raise last_err
Request429Mutant(j) ==
    /\ UNCHANGED notFetch
    /\ fpc = "loop"
    /\ j \in BackoffJitters
    /\ reqs' = reqs + 1
    /\ log' = Append(log, "429")
    /\ last_err' = [msg |-> ErrMsg("429"), attempt |-> attempt]
    /\ naps' = Append(naps, [why |-> "backoff", attempt |-> attempt,
                             base |-> Backoff(sleep_s, attempt), jitter |-> j])
    /\ IF attempt < MaxAttempts - 1
       THEN /\ attempt' = attempt + 1
            /\ UNCHANGED <<fpc, retKind, retVal, retErr>>
       ELSE /\ attempt' = attempt
            /\ Raise([msg |-> ErrMsg("429"), attempt |-> 1])
    /\ UNCHANGED <<server, files, exists, url, cache_dir, sleep_s, warm, netOK,
                   firstVal, ncalls>>

Request429(j) ==
    /\ UNCHANGED notFetch
    /\ fpc = "loop"
    /\ j \in BackoffJitters
    /\ Is429(ErrMsg("429"))
    /\ reqs' = reqs + 1
    /\ log' = Append(log, "429")
    /\ last_err' = [msg |-> ErrMsg("429"), attempt |-> attempt]
    /\ naps' = Append(naps, [why |-> "backoff", attempt |-> attempt,
                             base |-> Backoff(sleep_s, attempt), jitter |-> j])
    /\ IF attempt < MaxAttempts
       THEN /\ attempt' = attempt + 1
            /\ UNCHANGED <<fpc, retKind, retVal, retErr>>
       ELSE /\ attempt' = attempt
            /\ Raise(last_err')
    /\ UNCHANGED <<server, files, exists, url, cache_dir, sleep_s, warm, netOK,
                   firstVal, ncalls>>

\* the server's content for u changes
ServerDrift(u, b) ==
    /\ UNCHANGED notFetch
    /\ b # server[u]
    /\ server' = [server EXCEPT ![u] = b]
    /\ UNCHANGED <<files, exists, fpc, url, cache_dir, sleep_s, attempt, last_err,
                   reqs, naps, log, retKind, retVal, retErr, warm, netOK,
                   firstVal, ncalls>>

----------------------------------------------------------------------------
(* search_posts: its inputs and the listings the server may return *)

MaxSubs == 2
MaxLimit == 2
MaxPage == 2
AfterUtc == 2

SubNames == {"s1"}
Cursors == {"a"}

RECURSIVE SeqsUpTo(_, _)
SeqsUpTo(S, n) ==
    IF n = 0 THEN {<<>>}
    ELSE LET P == SeqsUpTo(S, n - 1) IN
         P \cup {Append(q, x) : q \in {p \in P : Len(p) = n - 1}, x \in S}

\* d.get("created_utc"): absent/null (has = FALSE) or epoch seconds, in tenths
Stamps == {
    [has |-> FALSE, created_utc |-> 0],
    [has |-> TRUE, created_utc |-> Sec(AfterUtc) - 5],
    [has |-> TRUE, created_utc |-> Sec(AfterUtc)] }

Posts(sub) == {[sub |-> sub, has |-> t.has, created_utc |-> t.created_utc] : t \in Stamps}

\* the parsed listing: obj["data"]["children"][i]["data"] and obj["data"]["after"]
Listings(sub) ==
    {[children |-> c, after |-> a] : c \in SeqsUpTo(Posts(sub), MaxPage), a \in Cursors \cup {""}}

NoListing == [children |-> <<>>, after |-> ""]

\* line 95: the url of a page is made of the community and the cursor
SearchUrl(sub, cur) == <<sub, cur>>
SearchUrls == {SearchUrl(s, c) : s \in SubNames, c \in Cursors \cup {""}}

\* the crawler is not running
SearchOff ==
    /\ subs = <<>>
    /\ limit = 0
    /\ use_cache = FALSE
    /\ spc = "done"
    /\ si = 1
    /\ after = ""
    /\ out = <<>>
    /\ result = <<>>
    /\ pages = [u \in SearchUrls |-> NoListing]
    /\ cachedUrls = {}
    /\ lastFetch = "none"
    /\ lastPage = NoListing
    /\ nfetch = 0
    /\ failedAt = {}

FetchNext ==
    \/ \E u \in Urls, cd \in CacheDirs, s \in Delays : Call(u, cd, s)
    \/ \E j \in PoliteJitters(sleep_s) : RequestOK(j)
    \/ \E o \in Outcomes : RequestFail(o)
    \/ \E j \in BackoffJitters : Request429(j)
    \/ \E u \in Urls, b \in Bodies : ServerDrift(u, b)

----------------------------------------------------------------------------
(* search_posts *)

SearchInit ==
    /\ subs \in SeqsUpTo(SubNames, MaxSubs)
    /\ limit \in 0..MaxLimit
    /\ use_cache \in BOOLEAN
    /\ spc = "while"
    /\ si = 1
    /\ after = ""
    /\ out = <<>>
    /\ result = <<>>
    /\ pages = [u \in SearchUrls |-> NoListing]
    /\ cachedUrls = {}
    /\ lastFetch = "none"
    /\ lastPage = NoListing
    /\ nfetch = 0
    /\ failedAt = {}

\* the fetcher is not running
FetchOff ==
    /\ server = [u \in Urls |-> <<>>]
    /\ files = [k \in Keys |-> <<>>]
    /\ exists = {}
    /\ fpc = "idle"
    /\ url = "u1"
    /\ cache_dir = ""
    /\ sleep_s = 0
    /\ attempt = 0
    /\ last_err = NoErr
    /\ reqs = 0
    /\ naps = <<>>
    /\ log = <<>>
    /\ retKind = "none"
    /\ retVal = <<>>
    /\ retErr = NoErr
    /\ warm = FALSE
    /\ netOK = {}
    /\ firstVal = [u \in Urls |-> <<>>]
    /\ ncalls = 0

\* line 107: int(d.get("created_utc") or 0), in whole seconds
Created(d) == IF d.has THEN d.created_utc \div 10 ELSE 0

\* line 108: the record is kept
KeepMutant(d) == ~d.has \/ Created(d) >= AfterUtc
Keep(d) == ~(Created(d) < AfterUtc)

\* lines 105-112: the for loop over the children of one page
RECURSIVE CollectMutant(_, _)
CollectMutant(acc, children) ==
    IF children = <<>> THEN acc
    ELSE IF ~Keep(Head(children)) THEN CollectMutant(acc, Tail(children))
    ELSE CollectMutant(Append(acc, Head(children)), Tail(children))

RECURSIVE Collect(_, _)
Collect(acc, children) ==
    IF children = <<>> THEN acc
    ELSE IF ~Keep(Head(children)) THEN Collect(acc, Tail(children))
    ELSE IF Len(acc) + 1 >= limit THEN Append(acc, Head(children))
    ELSE Collect(Append(acc, Head(children)), Tail(children))

Sub == subs[si]
\* (variant: the while loop tests the limit only after a fetch)
InWhileMutant == spc = "while" /\ si <= Len(subs) /\ (Len(out) < limit \/ after = "")

InWhile == spc = "while" /\ si <= Len(subs) /\ Len(out) < limit

\* "break", or the while condition turning false: on to the next community
NextCommunity ==
    /\ si' = si + 1
    /\ after' = ""

\* lines 96-99: http_get_json raises (only possible without a cache file)
FetchFailsMutant ==
    /\ UNCHANGED notSearch
    /\ InWhile
    /\ ~(use_cache /\ SearchUrl(Sub, after) \in cachedUrls)
    /\ lastFetch' = "error"
    /\ nfetch' = 1 - nfetch
    /\ failedAt' = failedAt \cup {si}
    /\ out' = <<>>
    /\ NextCommunity
    /\ UNCHANGED <<subs, limit, use_cache, spc, result, pages, cachedUrls, lastPage>>

FetchFails ==
    /\ UNCHANGED notSearch
    /\ InWhile
    /\ ~(use_cache /\ SearchUrl(Sub, after) \in cachedUrls)
    /\ lastFetch' = "error"
    /\ nfetch' = 1 - nfetch
    /\ failedAt' = failedAt \cup {si}
    /\ NextCommunity
    /\ UNCHANGED <<subs, limit, use_cache, spc, out, result, pages, cachedUrls, lastPage>>

\* (variant: a page that adds no record ends the paging of the community)
PageMutant(obj) ==
    /\ UNCHANGED notSearch
    /\ InWhile
    /\ IF use_cache /\ SearchUrl(Sub, after) \in cachedUrls
       THEN /\ obj = pages[SearchUrl(Sub, after)]
            /\ UNCHANGED <<pages, cachedUrls>>
       ELSE /\ obj \in Listings(Sub)
            /\ IF use_cache
               THEN /\ pages' = [pages EXCEPT ![SearchUrl(Sub, after)] = obj]
                    /\ cachedUrls' = cachedUrls \cup {SearchUrl(Sub, after)}
               ELSE UNCHANGED <<pages, cachedUrls>>
    /\ lastFetch' = "page"
    /\ lastPage' = obj
    /\ nfetch' = 1 - nfetch
    /\ IF obj.children = <<>> \/ Collect(out, obj.children) = out
       THEN /\ out' = out
            /\ NextCommunity
       ELSE /\ out' = Collect(out, obj.children)
            /\ IF obj.after = ""
               THEN NextCommunity
               ELSE /\ after' = obj.after
                    /\ si' = si
    /\ UNCHANGED <<subs, limit, use_cache, spc, result, failedAt>>

\* lines 85-116: one pass of the while body with a fetch that returns obj,
\* from the cache file when there is one, else from the network
Page(obj) ==
    /\ UNCHANGED notSearch
    /\ InWhile
    /\ IF use_cache /\ SearchUrl(Sub, after) \in cachedUrls
       THEN /\ obj = pages[SearchUrl(Sub, after)]
            /\ UNCHANGED <<pages, cachedUrls>>
       ELSE /\ obj \in Listings(Sub)
            /\ IF use_cache
               THEN /\ pages' = [pages EXCEPT ![SearchUrl(Sub, after)] = obj]
                    /\ cachedUrls' = cachedUrls \cup {SearchUrl(Sub, after)}
               ELSE UNCHANGED <<pages, cachedUrls>>
    /\ lastFetch' = "page"
    /\ lastPage' = obj
    /\ nfetch' = 1 - nfetch
    /\ IF obj.children = <<>>
       THEN /\ out' = out
            /\ NextCommunity
       ELSE /\ out' = Collect(out, obj.children)
            /\ IF obj.after = ""
               THEN NextCommunity
               ELSE /\ after' = obj.after
                    /\ si' = si
    /\ UNCHANGED <<subs, limit, use_cache, spc, result, failedAt>>

\* line 85: the while condition is false on entry or after a full page
LimitReached ==
    /\ UNCHANGED notSearch
    /\ spc = "while" /\ si <= Len(subs) /\ ~(Len(out) < limit)
    /\ NextCommunity
    /\ UNCHANGED <<subs, limit, use_cache, spc, out, result, pages, cachedUrls,
                   lastFetch, lastPage, nfetch, failedAt>>

\* line 118: return out[:limit]
SearchReturn ==
    /\ UNCHANGED notSearch
    /\ spc = "while" /\ si > Len(subs)
    /\ spc' = "done"
    /\ result' = SubSeq(out, 1, Min(Len(out), limit))
    /\ UNCHANGED <<subs, limit, use_cache, si, after, out, pages, cachedUrls,
                   lastFetch, lastPage, nfetch, failedAt>>

SearchNext ==
    \/ FetchFails
    \/ \E obj \in UNION {Listings(s) : s \in SubNames} : Page(obj)
    \/ LimitReached
    \/ SearchReturn

----------------------------------------------------------------------------
(* fetch_comments: the comment listing of a thread *)

MaxNodes == 4
MaxComments == 4

\* d.get("body") as a sequence of characters, by node kind
NodeKinds == {
    [kind |-> "t1", body |-> <<"x", " ">>],
    [kind |-> "t1", body |-> <<" ">>],
    [kind |-> "more", body |-> <<>>] }

\* node i replies to node parent (0: top level); only comments carry replies
RECURSIVE TreesOf(_)
TreesOf(n) ==
    IF n = 0 THEN {<<>>}
    ELSE UNION {
        {Append(t, [parent |-> p, kind |-> k.kind, body |-> k.body]) :
            p \in {0} \cup {q \in 1..Len(t) : t[q].kind = "t1"}, k \in NodeKinds} :
        t \in TreesOf(n - 1)}

Trees == UNION {TreesOf(n) : n \in 0..MaxNodes}

\* the walker is not running
WalkOff ==
    /\ tree = <<>>
    /\ max_comments = 0
    /\ wpc = "done"
    /\ stack = <<>>
    /\ wout = <<>>
    /\ wresult = <<>>
    /\ visited = <<>>
    /\ thread = "none"

WalkInit ==
    /\ tree \in Trees
    /\ max_comments \in 0..MaxComments
    /\ wpc = "fetch"
    /\ stack = <<>>
    /\ wout = <<>>
    /\ wresult = <<>>
    /\ visited = <<>>
    /\ thread = "none"

\* the ids of the nodes of a list whose parent is p, in listing order
RECURSIVE ChildrenFrom(_, _)
ChildrenFrom(p, i) ==
    IF i > Len(tree) THEN <<>>
    ELSE IF tree[i].parent = p THEN <<i>> \o ChildrenFrom(p, i + 1)
    ELSE ChildrenFrom(p, i + 1)

\* line 132: the children of the comment listing obj[1]
TopLevel == ChildrenFrom(0, 1)

\* lines 155-157: d["replies"]["data"]["children"], [] when there is none
RepliesMutant(n) == IF tree[n].body = <<" ">> THEN <<>> ELSE ChildrenFrom(n, 1)
Replies(n) == ChildrenFrom(n, 1)

\* str.strip()
RECURSIVE LStrip(_)
LStrip(b) == IF b # <<>> /\ Head(b) = " " THEN LStrip(Tail(b)) ELSE b
RECURSIVE RStrip(_)
RStrip(b) == IF b # <<>> /\ b[Len(b)] = " " THEN RStrip(SubSeq(b, 1, Len(b) - 1)) ELSE b
Strip(b) == RStrip(LStrip(b))

\* lines 145-151: the record appended for node n
Comment(n) == [id |-> n, body |-> Strip(tree[n].body)]

Top == stack[Len(stack)]
Pop == SubSeq(stack, 1, Len(stack) - 1)

\* "return" out of the innermost walk(): back in the caller at line 160, or
\* at line 166 when it was the outermost call
WalkReturns ==
    /\ stack' = Pop
    /\ wpc' = IF Len(stack) = 1 THEN "finish" ELSE "back"

\* (variant: the length test lets a one-element list through, obj[1] raises)
WalkFetchMutant(o) ==
    /\ UNCHANGED notWalk
    /\ wpc = "fetch"
    /\ o \in {"error", "notlist", "short", "ok"}
    /\ thread' = o
    /\ IF o = "ok"
       THEN /\ stack' = <<[nodes |-> TopLevel, i |-> 1]>>
            /\ wpc' = "loop"
            /\ wresult' = wresult
       ELSE /\ stack' = <<>>
            /\ wpc' = IF o = "short" THEN "raised" ELSE "done"
            /\ wresult' = <<>>
    /\ UNCHANGED <<tree, max_comments, wout, visited>>

\* lines 122-132 and 165: fetch the thread, check its shape, call walk(children)
WalkFetch(o) ==
    /\ UNCHANGED notWalk
    /\ wpc = "fetch"
    /\ o \in {"error", "notlist", "short", "ok"}
    /\ thread' = o
    /\ IF o = "ok"
       THEN /\ stack' = <<[nodes |-> TopLevel, i |-> 1]>>
            /\ wpc' = "loop"
            /\ wresult' = wresult
       ELSE /\ stack' = <<>>
            /\ wpc' = "done"
            /\ wresult' = <<>>
    /\ UNCHANGED <<tree, max_comments, wout, visited>>

\* lines 138-163: one iteration of "for n in nodes"
Visit ==
    /\ UNCHANGED notWalk
    /\ wpc = "loop"
    /\ Top.i <= Len(Top.nodes)
    /\ LET n == Top.nodes[Top.i]
           next == [stack EXCEPT ![Len(stack)].i = Top.i + 1]
           body == Strip(tree[n].body)
       IN  /\ visited' = Append(visited, n)
           /\ IF tree[n].kind = "t1"
              THEN /\ wout' = IF body # <<>> THEN Append(wout, Comment(n)) ELSE wout
                   /\ IF body # <<>> /\ Len(wout') >= max_comments
                      THEN WalkReturns
                      ELSE IF Replies(n) # <<>>
                      THEN /\ stack' = Append(next, [nodes |-> Replies(n), i |-> 1])
                           /\ wpc' = "loop"
                      ELSE /\ stack' = next
                           /\ wpc' = "loop"
              ELSE /\ wout' = wout
                   /\ stack' = next
                   /\ wpc' = "loop"
    /\ UNCHANGED <<tree, max_comments, wresult, thread>>

\* the for loop of the innermost walk() is exhausted: the call returns
LoopEnd ==
    /\ UNCHANGED notWalk
    /\ wpc = "loop"
    /\ Top.i > Len(Top.nodes)
    /\ WalkReturns
    /\ UNCHANGED <<tree, max_comments, wout, wresult, visited, thread>>

\* lines 160-161: after walk(rchildren) came back
Back ==
    /\ UNCHANGED notWalk
    /\ wpc = "back"
    /\ IF Len(wout) >= max_comments
       THEN WalkReturns
       ELSE /\ wpc' = "loop"
            /\ stack' = stack
    /\ UNCHANGED <<tree, max_comments, wout, wresult, visited, thread>>

\* line 166: return out[:max_comments]
WalkDone ==
    /\ UNCHANGED notWalk
    /\ wpc = "finish"
    /\ wpc' = "done"
    /\ wresult' = SubSeq(wout, 1, Min(Len(wout), max_comments))
    /\ UNCHANGED <<tree, max_comments, stack, wout, visited, thread>>

WalkNext ==
    \/ \E o \in {"error", "notlist", "short", "ok"} : WalkFetch(o)
    \/ Visit
    \/ LoopEnd
    \/ Back
    \/ WalkDone

----------------------------------------------------------------------------
(* IEEE-754 doubles: the values score_intent adds up.  A double x of
   magnitude below 2^7 whose ulp is at least 2^-53 is the integer x * 2^53,
   held as hi * Limb + lo with 0 <= lo < Limb. *)

Limb == 1073741824      \* 2^30
OneHi == 8388608        \* 1.0 is OneHi * Limb = 2^53

D(h, l) == [hi |-> h, lo |-> l]

Zero == D(0, 0)

\* x + y, exactly
Exact(x, y) ==
    LET l == x.lo + y.lo
    IN  D(x.hi + y.hi + l \div Limb, l % Limb)

\* -x
Neg(x) == IF x.lo = 0 THEN D(-x.hi, 0) ELSE D(-x.hi - 1, Limb - x.lo)

\* k * x for a small k >= 0
RECURSIVE Times(_, _)
Times(k, x) == IF k = 0 THEN Zero ELSE Exact(x, Times(k - 1, x))

\* x >= y
Ge(x, y) == x.hi > y.hi \/ (x.hi = y.hi /\ x.lo >= y.lo)

\* the spacing of the doubles around x, in units of 2^-53
Ulp(x) ==
    LET m == IF x.hi >= 0 THEN x.hi ELSE -x.hi - 1
    IN  IF m < OneHi THEN 1
        ELSE IF m < 2 * OneHi THEN 2
        ELSE IF m < 4 * OneHi THEN 4
        ELSE IF m < 8 * OneHi THEN 8
        ELSE 16

\* round x + fifths/5 units to the nearest double, ties to even
RoundFrac(x, fifths) ==
    LET g  == Ulp(x)
        r  == x.lo % g
        q  == x.lo \div g
        up == \/ 2 * (5 * r + fifths) > 5 * g
              \/ 2 * (5 * r + fifths) = 5 * g /\ q % 2 = 1
        l  == IF up THEN x.lo - r + g ELSE x.lo - r
    IN  D(x.hi + l \div Limb, l % Limb)

\* the double addition x + y
Add(x, y) == RoundFrac(Exact(x, y), 0)

\* the double a decimal literal of t tenths denotes (t = 0 or t >= 5)
Literal(t) ==
    LET n == t \div 10
        k == t % 10
        tenth == D(838860, 858993459)    \* 2^53 \div 10
        i == Exact(Exact(D(n * OneHi, 0), Times(k, tenth)), D(0, k \div 5))
    IN  RoundFrac(i, k % 5)

\* the literal w of a rule, given in tenths
Weight(t) == IF t < 0 THEN Neg(Literal(-t)) ELSE Literal(t)

----------------------------------------------------------------------------
(* score_intent (scoring.py).  A text is the set of lower-cased words and
   phrases that occur in it between word boundaries; a pattern is the set of
   its alternatives, and rx.search(text) finds one of them in the text. *)

\* lines 13-20; w is the decimal literal in tenths
_INTENT_RULES ==
    << [name |-> "looking_for",
        rx |-> {"looking for", "need", "seeking", "want"}, w |-> 20],
       [name |-> "recommend",
        rx |-> {"recommend", "recommendation", "any suggestions", "suggest"},
        w |-> 15],
       [name |-> "alternative",
        rx |-> {"alternative", "replacement", "instead of"}, w |-> 20],
       [name |-> "pricing",
        rx |-> {"price", "pricing", "expensive", "too expensive", "budget"},
        w |-> 10],
       [name |-> "demo_trial",
        rx |-> {"trial", "demo", "free trial"}, w |-> 8],
       [name |-> "b2b_words",
        rx |-> {"crm", "pipeline", "lead", "prospect", "invoic", "quote",
                "proposal", "client"}, w |-> 8] >>

\* lines 22-25
_NEGATIVE_RULES ==
    << [name |-> "rant", rx |-> {"rant", "vent"}, w |-> -8],
       [name |-> "no_buy",
        rx |-> {"not buying", "won't buy", "never pay"}, w |-> -15] >>

\* the words a text is made of here: a hit for each rule and a neutral word
Words == {"need", "suggest", "instead of", "budget", "demo", "crm", "vent",
          "not buying", "hello"}

Search(rx, t) == rx \cap t # {}

\* lines 33-36 and 38-41: the body of either loop, on st = [s, signals]
Apply(r, t, st) ==
    IF Search(r.rx, t)
    THEN [s |-> Add(st.s, Weight(r.w)), signals |-> Append(st.signals, r.name)]
    ELSE st

\* the loop over the rules from position i on
RECURSIVE Loop(_, _, _, _)
Loop(rules, i, t, st) ==
    IF i > Len(rules) THEN st ELSE Loop(rules, i + 1, t, Apply(rules[i], t, st))

\* lines 43-46
Floored(st) ==
    [score |-> IF st.s.hi < 0 THEN Zero ELSE st.s, signals |-> st.signals]

\* lines 28-46 as one value
score_intent(t) ==
    Floored(Loop(_NEGATIVE_RULES, 1, t,
                 Loop(_INTENT_RULES, 1, t, [s |-> Zero, signals |-> <<>>])))

NoResult == [score |-> Zero, signals |-> <<"?">>]

ScoreOff ==
    /\ text = {}
    /\ scpc = "off"
    /\ ri = 0
    /\ s_acc = Zero
    /\ signals = <<>>
    /\ ir = NoResult

\* lines 29-31
ScoreInit ==
    /\ text \in SUBSET Words
    /\ scpc = "pos"
    /\ ri = 1
    /\ s_acc = Zero
    /\ signals = <<>>
    /\ ir = NoResult

\* one pass of either loop; at the end of the table go on at position nxt
RuleStep(rules, nxt) ==
    LET st == Apply(rules[ri], text, [s |-> s_acc, signals |-> signals])
    IN  /\ s_acc' = st.s
        /\ signals' = st.signals
        /\ IF ri < Len(rules)
           THEN ri' = ri + 1 /\ scpc' = scpc
           ELSE ri' = 1 /\ scpc' = nxt
        /\ UNCHANGED <<text, ir>>

\* lines 33-36
PositiveRule ==
    /\ UNCHANGED notScore
    /\ scpc = "pos"
    /\ RuleStep(_INTENT_RULES, "neg")

\* lines 38-41
NegativeRule ==
    /\ UNCHANGED notScore
    /\ scpc = "neg"
    /\ RuleStep(_NEGATIVE_RULES, "floor")

\* lines 43-46
ScoreReturn ==
    /\ UNCHANGED notScore
    /\ scpc = "floor"
    /\ ir' = Floored([s |-> s_acc, signals |-> signals])
    /\ scpc' = "done"
    /\ UNCHANGED <<text, ri, s_acc, signals>>

ScoreNext ==
    \/ PositiveRule
    \/ NegativeRule
    \/ ScoreReturn

----------------------------------------------------------------------------
(* Parsed JSON as the crawler, the walker and the aggregator read it: values
   tagged with their Python type.  A dict is a function on the keys it has; a
   str is a sequence of words and blanks.  Raised stands for the exception an
   operation on a value of the wrong type throws, and is passed on by every
   operation applied to it. *)

JNull == [t |-> "null"]
JInt(n) == [t |-> "int", v |-> n]
JStr(b) == [t |-> "str", v |-> b]
JList(b) == [t |-> "list", v |-> b]
JDict(f) == [t |-> "dict", v |-> f]
Raised == [t |-> "raise"]

EmptyDict == JDict(<<>>)
EmptyList == JList(<<>>)
EmptyStr == JStr(<<>>)

IsRaised(x) == x.t = "raise"

\* bool(x)
Truthy(x) ==
    CASE x.t = "null" -> FALSE
      [] x.t = "int"  -> x.v # 0
      [] x.t = "dict" -> DOMAIN x.v # {}
      [] OTHER        -> x.v # <<>>

\* x or dflt
Or(x, dflt) == IF IsRaised(x) THEN x ELSE IF Truthy(x) THEN x ELSE dflt

\* x.get(key): None has no get
Get(x, key) ==
    IF x.t # "dict" THEN Raised
    ELSE IF key \in DOMAIN x.v THEN x.v[key] ELSE JNull

\* int(x): int(None) is a TypeError
int(x) == IF x.t = "int" THEN x ELSE Raised

\* x.strip(): None has no strip
StripStr(x) == IF x.t = "str" THEN JStr(Strip(x.v)) ELSE Raised

\* ((x or {}).get("data") or {}).get("children") or []
ChildrenOf(x) ==
    Or(Get(Or(Get(Or(x, EmptyDict), "data"), EmptyDict), "children"),
       EmptyList)

\* (x or {}).get("data") or {}
DataOf(x) == Or(Get(Or(x, EmptyDict), "data"), EmptyDict)

\* int(x.get(key) or 0)
IntOf(x, key) == int(Or(Get(x, key), JInt(0)))

\* x.get(key) or ""
StrOf(x, key) == Or(Get(x, key), EmptyStr)

----------------------------------------------------------------------------
(* The crawler and the walker on parsed JSON whose fields may be missing or
   null: what search_posts makes of one page and fetch_comments of one
   thread.  A result is [raised, out]. *)

Thrown(acc) == [raised |-> TRUE, out |-> acc]
Given(acc) == [raised |-> FALSE, out |-> acc]

\* (variant: d = ch.get("data") or {}, without the guard for a null child)
RECURSIVE GatherMutant(_, _, _, _)
GatherMutant(chs, i, cutoff, acc) ==
    IF i > Len(chs) THEN Given(acc)
    ELSE LET d       == Or(Get(chs[i], "data"), EmptyDict)
             created == IntOf(d, "created_utc")
         IN  IF IsRaised(created) THEN Thrown(acc)
             ELSE IF created.v < cutoff
                  THEN GatherMutant(chs, i + 1, cutoff, acc)
                  ELSE GatherMutant(chs, i + 1, cutoff, Append(acc, d))

\* reddit.py lines 105-112, the limit out of reach
RECURSIVE Gather(_, _, _, _)
Gather(chs, i, cutoff, acc) ==
    IF i > Len(chs) THEN Given(acc)
    ELSE LET d       == DataOf(chs[i])
             created == IntOf(d, "created_utc")
         IN  IF IsRaised(created) THEN Thrown(acc)
             ELSE IF created.v < cutoff
                  THEN Gather(chs, i + 1, cutoff, acc)
                  ELSE Gather(chs, i + 1, cutoff, Append(acc, d))

\* reddit.py lines 101-116 for a page x that is the last one
search_page(x, cutoff) ==
    LET chs == ChildrenOf(x)
    IN  IF IsRaised(chs) THEN Thrown(<<>>)
        ELSE IF ~Truthy(chs) THEN Given(<<>>)
        ELSE LET g   == Gather(chs.v, 1, cutoff, <<>>)
                 cur == Get(Or(Get(x, "data"), EmptyDict), "after")
             IN  IF g.raised \/ IsRaised(cur) THEN Thrown(g.out) ELSE g

\* reddit.py lines 136-163: walk(nodes) from position i on, cap = max_comments
RECURSIVE walk(_, _, _, _)
walk(nodes, i, cap, acc) ==
    IF i > Len(nodes) THEN Given(acc)
    ELSE
    LET n    == nodes[i]
        kind == Get(Or(n, EmptyDict), "kind")
        d    == DataOf(n)
    IN
    IF IsRaised(kind) \/ IsRaised(d) THEN Thrown(acc)
    ELSE IF kind.t = "str" /\ kind.v = <<"t1">>
    THEN
        LET body == StripStr(StrOf(d, "body"))
            c    == [id |-> Get(d, "id"), author |-> StrOf(d, "author"),
                     created_utc |-> IntOf(d, "created_utc"),
                     score |-> IntOf(d, "score"), body |-> body]
            bad  == \/ IsRaised(body)
                    \/ Truthy(body) /\ \E f \in DOMAIN c : IsRaised(c[f])
            acc1 == IF ~bad /\ Truthy(body) THEN Append(acc, JDict(c)) ELSE acc
            replies == Get(d, "replies")
        IN
        IF bad THEN Thrown(acc)
        ELSE IF Truthy(body) /\ Len(acc1) >= cap THEN Given(acc1)
        ELSE IF Truthy(replies) /\ replies.t = "dict"
        THEN
            LET rch == Or(Get(Or(Get(replies, "data"), EmptyDict),
                              "children"), EmptyList)
                sub == IF IsRaised(rch) THEN Thrown(acc1)
                       ELSE IF Truthy(rch) THEN walk(rch.v, 1, cap, acc1)
                       ELSE Given(acc1)
            IN  IF sub.raised THEN sub
                ELSE IF Truthy(rch) /\ Len(sub.out) >= cap THEN sub
                ELSE walk(nodes, i + 1, cap, sub.out)
        ELSE walk(nodes, i + 1, cap, acc1)
    ELSE walk(nodes, i + 1, cap, acc)

\* reddit.py lines 122-132 and 165-166; x is the fetched value, Raised when
\* the fetch failed
fetch_comments(x, cap) ==
    IF IsRaised(x) THEN Given(<<>>)
    ELSE IF x.t # "list" \/ Len(x.v) < 2 THEN Given(<<>>)
    ELSE LET chs == ChildrenOf(x.v[2])
             w   == IF IsRaised(chs) THEN Thrown(<<>>)
                    ELSE walk(chs.v, 1, cap, <<>>)
         IN  IF w.raised THEN w
             ELSE Given(SubSeq(w.out, 1, Min(Len(w.out), cap)))

----------------------------------------------------------------------------
(* scan (cli.py lines 108-167): the aggregator over what one search page and
   the comment threads of its posts hold. *)

MaxPosts == 2           \* children on the search page

PostTextMax == 2000     \* text[:2000]
CommentTextMax == 1500  \* body[:1500]

\* a post record with every field null
PostNulls ==
    JDict([title |-> JNull, selftext |-> JNull, permalink |-> JNull,
           url |-> JNull, subreddit |-> JNull, author |-> JNull,
           created_utc |-> JNull, score |-> JNull])
\* post records: every field null, no field at all, and complete ones
RawPosts ==
    {PostNulls, EmptyDict,
     JDict([title |-> JStr(<<"need", " ">>), selftext |-> JStr(<<"crm">>),
            permalink |-> JStr(<<"/r/1">>), url |-> JStr(<<"http://a">>),
            subreddit |-> JStr(<<"s1">>), author |-> JStr(<<"amy">>),
            created_utc |-> JInt(5), score |-> JInt(3)]),
     JDict([title |-> JStr(<<"need">>), selftext |-> JStr(<<" ", "crm">>),
            url |-> JStr(<<"http://b">>), subreddit |-> JStr(<<"s1">>),
            author |-> JStr(<<"bob">>), created_utc |-> JInt(5),
            score |-> JInt(3)]),
     JDict([title |-> JStr(<<"need">>), permalink |-> JStr(<<"/r/2">>),
            created_utc |-> JInt(5), score |-> JNull])}

\* the children a page can list: null, data null, or a post
RawChildren ==
    {JNull, JDict([kind |-> JStr(<<"t3">>), data |-> JNull])}
    \cup {JDict([kind |-> JStr(<<"t3">>), data |-> d]) : d \in RawPosts}

\* the values the search fetch can return: null, {}, data or children null,
\* or a page of up to MaxPosts children with a null cursor
RawPages ==
    {JNull, EmptyDict, JDict([data |-> JNull]),
     JDict([data |-> JDict([children |-> JNull])])}
    \cup {JDict([data |-> JDict([children |-> JList(chs), after |-> JNull])]) :
            chs \in SeqsUpTo(RawChildren, MaxPosts)}

\* the values a thread fetch can return; Raised is the failed fetch
RawThreads ==
    LET t1 == JStr(<<"t1">>)
        x  == JDict([kind |-> t1,
                     data |-> JDict([id |-> JStr(<<"x">>),
                                     author |-> JStr(<<"cat">>),
                                     created_utc |-> JInt(5),
                                     score |-> JInt(3),
                                     body |-> JStr(<<" ", "need", "crm">>),
                                     replies |-> EmptyStr])])
        z  == JDict([kind |-> t1,
                     data |-> JDict([body |-> JStr(<<"demo">>),
                                     replies |-> JDict([data |-> JNull])])])
        y  == JDict([kind |-> t1,
                     data |-> JDict([id |-> JNull, author |-> JNull,
                                     created_utc |-> JNull, score |-> JNull,
                                     body |-> JStr(<<"need">>),
                                     replies |-> JDict([data |-> JDict(
                                         [children |-> JList(<<JNull, z>>)])])])])
        blank == JDict([kind |-> t1, data |-> JDict([body |-> JNull])])
        more  == JDict([kind |-> JStr(<<"more">>), data |-> EmptyDict])
        thread_of(nodes) ==
            JList(<<JNull,
                    JDict([data |-> JDict([children |-> JList(nodes)])])>>)
    IN  {Raised, EmptyDict, JList(<<JNull>>), JList(<<JNull, JNull>>),
         JList(<<JNull, JDict([data |-> JNull])>>),
         thread_of(<<JNull, EmptyDict, JDict([kind |-> t1]), blank, x, more>>),
         thread_of(<<y, x>>)}

ScanOff ==
    /\ page = JNull
    /\ after_utc = 0
    /\ include_comments = FALSE
    /\ min_intent = Zero
    /\ comment_cap = 0
    /\ apc = "off"
    /\ posts = <<>>
    /\ pidx = 0
    /\ comments = <<>>
    /\ cidx = 0
    /\ leads = <<>>
    /\ emitted = <<>>
    /\ fetched = <<>>

\* cli.py lines 79-106: the options, and the page the server will answer with
ScanInit ==
    /\ page \in RawPages
    /\ after_utc \in {0, AfterUtc}
    /\ include_comments \in BOOLEAN
    /\ min_intent \in {Literal(0), Literal(20)}
    /\ comment_cap \in {1, 2}
    /\ apc = "search"
    /\ posts = <<>>
    /\ pidx = 1
    /\ comments = <<>>
    /\ cidx = 1
    /\ leads = <<>>
    /\ emitted = <<>>
    /\ fetched = <<>>

\* the words and phrases of a str; a blank stands for any whitespace
WordsOf(b) == {b[i] : i \in 1..Len(b)} \ {" "}

\* b[:k]
Take(b, k) == SubSeq(b, 1, Min(Len(b), k))

\* a record has a field that raised
AnyRaised(rec) == \E f \in DOMAIN rec : IsRaised(rec[f])

\* cli.py lines 118-124: the locals computed for post x
PostLocals(x) ==
    LET title     == StripStr(StrOf(x, "title"))
        selftext  == StripStr(StrOf(x, "selftext"))
        permalink == StrOf(x, "permalink")
    IN  [title |-> title,
         selftext |-> selftext,
         text |-> IF IsRaised(title) \/ IsRaised(selftext) THEN Raised
                  ELSE JStr(Strip(title.v \o <<" ", " ">> \o selftext.v)),
         permalink |-> permalink,
         url |-> IF IsRaised(permalink) THEN Raised
                 ELSE IF Truthy(permalink)
                      THEN JStr(<<"https://www.reddit.com">> \o permalink.v)
                      ELSE StrOf(x, "url"),
         subreddit |-> StrOf(x, "subreddit")]

\* cli.py lines 128-141; origin tells which post or comment the lead is for
PostLead(x, loc, res, origin) ==
    [kind |-> "post", subreddit |-> loc.subreddit.v, title |-> loc.title.v,
     author |-> StrOf(x, "author").v,
     created_utc |-> IntOf(x, "created_utc").v,
     score |-> IntOf(x, "score").v, url |-> loc.url.v,
     text |-> Take(loc.text.v, PostTextMax),
     intent_score |-> res.score, signals |-> res.signals, origin |-> origin]

\* cli.py lines 152-165
CommentLead(x, loc, body, res, origin) ==
    [kind |-> "comment", subreddit |-> loc.subreddit.v, title |-> loc.title.v,
     author |-> StrOf(x, "author").v,
     created_utc |-> IntOf(x, "created_utc").v,
     score |-> IntOf(x, "score").v, url |-> loc.url.v,
     text |-> Take(body, CommentTextMax),
     intent_score |-> res.score, signals |-> res.signals, origin |-> origin]

\* cli.py line 108
ScanSearch ==
    /\ UNCHANGED notScan
    /\ apc = "search"
    /\ LET got == search_page(page, after_utc)
       IN  /\ posts' = got.out
           /\ apc' = IF got.raised THEN "raised"
                     ELSE IF got.out = <<>> THEN "sort" ELSE "post"
           /\ fetched' = [i \in 1..Len(got.out) |-> <<>>]
    /\ UNCHANGED <<page, after_utc, include_comments, min_intent, comment_cap,
                   pidx, comments, cidx, leads, emitted>>

\* the position after the comments of the current post are done with
NextPost ==
    /\ pidx' = pidx + 1
    /\ cidx' = 1
    /\ apc' = IF pidx < Len(posts) THEN "post" ELSE "sort"

\* (variant: the post is kept only when its score is above the threshold)
PostEmitMutant(res) == ~Ge(min_intent, res.score)

\* cli.py line 127: ir.score >= min_intent
PostEmit(res) == Ge(res.score, min_intent)

\* cli.py lines 117-143: one post, and the fetch of its comments; th is what
\* the thread fetch returns
Post(th) ==
    /\ UNCHANGED notScan
    /\ apc = "post"
    /\ th \in RawThreads
    /\ LET x    == posts[pidx]
           loc  == PostLocals(x)
           res  == score_intent(WordsOf(loc.text.v))
           keep == PostEmit(res)
           bad  == \/ AnyRaised(loc)
                   \/ keep /\ \/ IsRaised(StrOf(x, "author"))
                              \/ IsRaised(IntOf(x, "created_utc"))
                              \/ IsRaised(IntOf(x, "score"))
           got  == IF include_comments /\ Truthy(loc.permalink)
                   THEN fetch_comments(th, comment_cap)
                   ELSE Given(<<>>)
       IN  IF bad \/ got.raised
           THEN /\ apc' = "raised"
                /\ UNCHANGED <<pidx, comments, cidx, leads, fetched>>
           ELSE /\ leads' = IF keep
                            THEN Append(leads,
                                        PostLead(x, loc, res, <<pidx, 0>>))
                            ELSE leads
                /\ comments' = got.out
                /\ fetched' = [fetched EXCEPT ![pidx] = got.out]
                /\ IF got.out # <<>>
                   THEN /\ apc' = "comment"
                        /\ cidx' = 1
                        /\ pidx' = pidx
                   ELSE NextPost
    /\ UNCHANGED <<page, after_utc, include_comments, min_intent, comment_cap,
                   posts, emitted>>

\* cli.py lines 145-165: one comment of the current post
CommentStep ==
    /\ UNCHANGED notScan
    /\ apc = "comment"
    /\ LET x    == comments[cidx]
           loc  == PostLocals(posts[pidx])
           body == StripStr(StrOf(x, "body"))
           res  == score_intent(WordsOf(body.v))
           keep == Truthy(body) /\ Ge(res.score, min_intent)   \* line 150
           bad  == \/ IsRaised(body)
                   \/ keep /\ \/ IsRaised(StrOf(x, "author"))
                              \/ IsRaised(IntOf(x, "created_utc"))
                              \/ IsRaised(IntOf(x, "score"))
       IN  IF bad
           THEN /\ apc' = "raised"
                /\ UNCHANGED <<pidx, cidx, leads>>
           ELSE /\ leads' = IF keep
                            THEN Append(leads,
                                        CommentLead(x, loc, body.v, res,
                                                    <<pidx, cidx>>))
                            ELSE leads
                /\ IF cidx < Len(comments)
                   THEN /\ cidx' = cidx + 1
                        /\ UNCHANGED <<pidx, apc>>
                   ELSE NextPost
    /\ UNCHANGED <<page, after_utc, include_comments, min_intent, comment_cap,
                   posts, comments, emitted, fetched>>

\* x.intent_score, x.score < y.intent_score, y.score as tuples
KeyLess(x, y) ==
    \/ ~Ge(x.intent_score, y.intent_score)
    \/ x.intent_score = y.intent_score /\ x.score < y.score

\* (variant: a lead goes before the leads of equal key already placed)
RECURSIVE PlaceMutant(_, _)
PlaceMutant(sorted, x) ==
    IF sorted = <<>> THEN <<x>>
    ELSE IF KeyLess(x, Head(sorted))
         THEN <<Head(sorted)>> \o PlaceMutant(Tail(sorted), x)
         ELSE <<x>> \o sorted

\* x is placed behind every lead whose key is not less than its own
RECURSIVE Place(_, _)
Place(sorted, x) ==
    IF sorted = <<>> THEN <<x>>
    ELSE IF KeyLess(Head(sorted), x)
         THEN <<x>> \o sorted
         ELSE <<Head(sorted)>> \o Place(Tail(sorted), x)

\* list.sort(key=..., reverse=True): stable, largest key first
RECURSIVE SortDesc(_, _)
SortDesc(ls, i) ==
    IF i = 0 THEN <<>> ELSE Place(SortDesc(ls, i - 1), ls[i])

\* cli.py line 167
Sort ==
    /\ UNCHANGED notScan
    /\ apc = "sort"
    /\ emitted' = leads
    /\ leads' = SortDesc(leads, Len(leads))
    /\ apc' = "done"
    /\ UNCHANGED <<page, after_utc, include_comments, min_intent, comment_cap,
                   posts, pidx, comments, cidx, fetched>>

ScanNext ==
    \/ ScanSearch
    \/ \E th \in RawThreads : Post(th)
    \/ CommentStep
    \/ Sort

----------------------------------------------------------------------------
(* Two runs of http_get_json for the same url with the same cache directory
   (reddit.py lines 26-49), interleaved at the system calls on the cache
   file: the existence check, open for reading and read, open for writing
   (which truncates), each flush of the buffered dump, and close. *)

Runs == {1, 2}

ChunkLen == 2   \* what one flush of the write buffer holds

\* the bodies the server answers with: complete JSON
RunBodies == {b \in Bodies : JsonOK(b)}

RunsOff ==
    /\ cexists = FALSE
    /\ cdata = <<>>
    /\ rpc = [r \in Runs |-> "off"]
    /\ robj = [r \in Runs |-> <<>>]
    /\ roff = [r \in Runs |-> 0]
    /\ rret = [r \in Runs |-> [kind |-> "none", val |-> <<>>]]
    /\ closed = <<>>

\* both runs are about to call http_get_json; the cache is empty
RunsInit ==
    /\ cexists = FALSE
    /\ cdata = <<>>
    /\ rpc = [r \in Runs |-> "exists"]
    /\ robj = [r \in Runs |-> <<>>]
    /\ roff = [r \in Runs |-> 0]
    /\ rret = [r \in Runs |-> [kind |-> "none", val |-> <<>>]]
    /\ closed = <<>>

\* k bytes of a hole in a file
RECURSIVE Hole(_)
Hole(k) == IF k <= 0 THEN <<>> ELSE <<"\\0">> \o Hole(k - 1)

\* write(2) of chunk at position off of a file holding data
WriteAt(data, off, chunk) ==
    IF off >= Len(data) THEN data \o Hole(off - Len(data)) \o chunk
    ELSE SubSeq(data, 1, off) \o chunk
         \o SubSeq(data, off + Len(chunk) + 1, Len(data))

\* line 29
Exists(r) ==
    /\ UNCHANGED notRuns
    /\ rpc[r] = "exists"
    /\ rpc' = [rpc EXCEPT ![r] = IF cexists THEN "load" ELSE "request"]
    /\ UNCHANGED <<cexists, cdata, robj, roff, rret, closed>>

\* lines 30-31: json.load of what the file holds now; its error leaves the call
Load(r) ==
    /\ UNCHANGED notRuns
    /\ rpc[r] = "load"
    /\ rpc' = [rpc EXCEPT ![r] = "done"]
    /\ rret' = [rret EXCEPT ![r] =
                   IF JsonOK(cdata)
                   THEN [kind |-> "value", val |-> json_loads(cdata)]
                   ELSE [kind |-> "error", val |-> <<>>]]
    /\ UNCHANGED <<cexists, cdata, robj, roff, closed>>

\* lines 42-44: the server answers with body b
Respond(r, b) ==
    /\ UNCHANGED notRuns
    /\ rpc[r] = "request"
    /\ b \in RunBodies
    /\ robj' = [robj EXCEPT ![r] = json_loads(b)]
    /\ rpc' = [rpc EXCEPT ![r] = "open"]
    /\ UNCHANGED <<cexists, cdata, roff, rret, closed>>

\* line 46: open(cache_path, "w") creates the file or truncates it
OpenWrite(r) ==
    /\ UNCHANGED notRuns
    /\ rpc[r] = "open"
    /\ cexists' = TRUE
    /\ cdata' = <<>>
    /\ roff' = [roff EXCEPT ![r] = 0]
    /\ rpc' = [rpc EXCEPT ![r] = "dump"]
    /\ UNCHANGED <<robj, rret, closed>>

\* line 47: the next flush of json.dump(obj, f), the last one on close
Flush(r) ==
    /\ UNCHANGED notRuns
    /\ rpc[r] = "dump"
    /\ LET all   == json_dump(robj[r])
           chunk == SubSeq(all, roff[r] + 1, Min(Len(all), roff[r] + ChunkLen))
       IN  /\ cdata' = WriteAt(cdata, roff[r], chunk)
           /\ roff' = [roff EXCEPT ![r] = roff[r] + Len(chunk)]
           /\ rpc' = [rpc EXCEPT ![r] =
                         IF roff[r] + Len(chunk) = Len(all) THEN "return"
                         ELSE "dump"]
           /\ closed' = IF roff[r] + Len(chunk) = Len(all)
                        THEN Append(closed, r) ELSE closed
    /\ UNCHANGED <<cexists, robj, rret>>

\* lines 48-49
RunReturn(r) ==
    /\ UNCHANGED notRuns
    /\ rpc[r] = "return"
    /\ rret' = [rret EXCEPT ![r] = [kind |-> "value", val |-> robj[r]]]
    /\ rpc' = [rpc EXCEPT ![r] = "done"]
    /\ UNCHANGED <<cexists, cdata, robj, roff, closed>>

RunsNext ==
    \E r \in Runs :
        \/ Exists(r)
        \/ Load(r)
        \/ \E b \in RunBodies : Respond(r, b)
        \/ OpenWrite(r)
        \/ Flush(r)
        \/ RunReturn(r)

----------------------------------------------------------------------------
(* Specifications *)

InitSearch == SearchInit /\ FetchOff /\ WalkOff /\ ScoreOff /\ ScanOff /\ RunsOff

SpecSearch == InitSearch /\ [][SearchNext]_vars

\* the interpreter keeps executing search_posts while it has a step to take
SpecSearchFair == InitSearch /\ [][SearchNext]_vars /\ WF_vars(SearchNext)

InitWalk == WalkInit /\ FetchOff /\ SearchOff /\ ScoreOff /\ ScanOff /\ RunsOff

SpecWalk == InitWalk /\ [][WalkNext]_vars

InitFetch == FetchInit /\ SearchOff /\ WalkOff /\ ScoreOff /\ ScanOff /\ RunsOff

SpecFetch == InitFetch /\ [][FetchNext]_vars

InitScore == ScoreInit /\ FetchOff /\ SearchOff /\ WalkOff /\ ScanOff /\ RunsOff

SpecScore == InitScore /\ [][ScoreNext]_vars

InitScan == ScanInit /\ FetchOff /\ SearchOff /\ WalkOff /\ ScoreOff /\ RunsOff

SpecScan == InitScan /\ [][ScanNext]_vars

InitRuns ==
    RunsInit /\ FetchOff /\ SearchOff /\ WalkOff /\ ScoreOff /\ ScanOff

SpecRuns == InitRuns /\ [][RunsNext]_vars

----------------------------------------------------------------------------
(* Properties of http_get_json, checked under SpecFetch *)

\* C1: with a cache directory set, once a fetch of url has succeeded over the
\* network, every later fetch of url returns the value of that first fetch
\* and issues no request, also after the server's content has changed.
C1_CacheIdempotent ==
    warm => /\ fpc = "idle"
            /\ retKind = "value"
            /\ retVal = firstVal[url]
            /\ reqs = 0
            /\ log = <<>>

\* a second warm fetch has returned while the server serves another value
C1_Witness ==
    /\ warm /\ fpc = "idle" /\ ncalls = MaxCalls
    /\ retKind = "value"
    /\ JsonOK(server[url])
    /\ json_loads(server[url]) # firstVal[url]

\* C2: an attempt that fails with anything but a rate-limit answer ends the
\* call with that error at once: it is the last request of the call and no
\* sleep follows it, whichever attempt it is.
C2_FailFast ==
    \A i \in 1..Len(log) :
        log[i] \notin {"200", "429"} =>
            /\ i = Len(log)
            /\ fpc = "idle"
            /\ retKind = "error"
            /\ retErr = [msg |-> ErrMsg(log[i]), attempt |-> i]
            /\ reqs = i
            /\ Len(naps) = i - 1
            /\ \A n \in 1..Len(naps) : naps[n].why = "backoff" /\ naps[n].attempt < i

\* a malformed body on the third attempt, after two rate-limit answers
C2_Witness ==
    /\ fpc = "idle"
    /\ log = <<"429", "429", "json">>
    /\ retKind = "error"

\* C3: a call issues at most 5 requests; answered 429 every time it issues
\* exactly 5 and then raises the error of the fifth attempt.
C3_AtMostFive ==
    /\ reqs = Len(log)
    /\ reqs <= 5
    /\ fpc = "loop" => reqs < 5 /\ attempt = reqs + 1
    /\ (fpc = "idle" /\ log # <<>> /\ \A i \in 1..Len(log) : log[i] = "429") =>
            /\ reqs = 5
            /\ retKind = "error"
            /\ retErr = [msg |-> ErrMsg("429"), attempt |-> 5]

\* five rate-limit answers in a row
C3_Witness ==
    /\ fpc = "idle"
    /\ log = <<"429", "429", "429", "429", "429">>
    /\ retKind = "error"

\* C4 as stated: the delay slept before attempt k (k >= 2) is
\* min(60, 5*d*2^(k-1)) plus a jitter in [0, 1].
C4_DelayBeforeAttempt ==
    \A k \in 2..Len(log) :
        /\ naps[k - 1].why = "backoff"
        /\ naps[k - 1].base = Min(Sec(60), 5 * sleep_s * Pow2(k - 1))
        /\ naps[k - 1].jitter \in 0..Sec(1)

\* C4 amended: the delay slept after the k-th rate-limited attempt (before
\* attempt k+1, or before the error is raised when k = 5) is
\* min(60, 5*d*2^(k-1)) plus a jitter in [0, 1].
C4_DelayAfterAttempt ==
    \A k \in 1..Len(log) :
        log[k] = "429" =>
            /\ Len(naps) >= k
            /\ naps[k].why = "backoff"
            /\ naps[k].attempt = k
            /\ naps[k].base = Min(Sec(60), 5 * sleep_s * Pow2(k - 1))
            /\ naps[k].jitter \in 0..Sec(1)

\* five backoffs with a positive base delay, the last one at the 60 s cap
C4_Witness ==
    /\ sleep_s = Sec(1)
    /\ Len(naps) = 5
    /\ naps[2].base = Sec(10)
    /\ naps[5].base = Sec(60)

----------------------------------------------------------------------------
(* Properties of search_posts, checked under SpecSearch / SpecSearchFair *)

\* C5: search_posts always terminates, also against a server whose cursor
\* repeats and whose pages hold only records older than after_utc.
C5_Terminates == <>(spc = "done")

\* C6: the accumulator never holds more than limit records and the returned
\* list has at most limit records, over all communities together.
C6_AtMostLimit ==
    /\ Len(out) <= limit
    /\ Len(result) <= limit

\* a page with two records inside the window met limit = 1: one was taken,
\* the crawl ended without a fetch for the second community
C6_Witness ==
    /\ spc = "done"
    /\ Len(subs) = 2
    /\ limit = 1
    /\ Len(lastPage.children) = 2
    /\ \A i \in 1..2 : lastPage.children[i].has /\ lastPage.children[i].created_utc >= Sec(AfterUtc)
    /\ result = <<lastPage.children[1]>>

\* C7: a failed fetch does not make search_posts raise: paging of the
\* community stops, the posts collected so far stay, the crawl goes on with
\* the next community, and the posts are part of what is returned.
C7_FailureSwallowed ==
    [][ /\ (nfetch' # nfetch /\ lastFetch' = "error") =>
              /\ spc' = "while"
              /\ out' = out
              /\ si' = si + 1
              /\ after' = ""
        /\ (spc = "while" /\ spc' = "done") => result' = out ]_vars

\* a fetch of the first community failed after one post was collected; the
\* post was kept and one more came from the second community
C7_Witness ==
    /\ spc = "done"
    /\ failedAt = {1}
    /\ Len(subs) = 2
    /\ Len(result) = 2
    /\ Len(lastPage.children) = 1
    /\ ~use_cache

\* C8: no record whose created_utc (0 when absent) is below after_utc is in
\* the accumulator or in the returned list.
C8_NoOldRecord ==
    /\ \A i \in 1..Len(out) : out[i].has /\ out[i].created_utc >= Sec(AfterUtc)
    /\ \A i \in 1..Len(result) : result[i].has /\ result[i].created_utc >= Sec(AfterUtc)

\* a page with a record without created_utc ahead of a record inside the
\* window: only the second one is returned
C8_Witness ==
    /\ spc = "done"
    /\ Len(lastPage.children) = 2
    /\ ~lastPage.children[1].has
    /\ result = <<lastPage.children[2]>>

\* C17: a non-empty page whose records are all older than after_utc does
\* not end the paging: when it carries a cursor and the limit is not reached,
\* nothing is collected from it and the next fetch is for the same community
\* with that cursor.
C17_OldPageKeepsPaging ==
    [][ (/\ nfetch' # nfetch
         /\ lastFetch' = "page"
         /\ lastPage'.children # <<>>
         /\ \A i \in 1..Len(lastPage'.children) : ~Keep(lastPage'.children[i])
         /\ lastPage'.after # ""
         /\ Len(out') < limit)
        => /\ out' = out
           /\ spc' = "while"
           /\ si' = si
           /\ after' = lastPage'.after
           /\ (si' <= Len(subs) /\ Len(out') < limit) ]_vars

\* the first page of the community held only old records and a cursor; the
\* page behind that cursor held a fresh record, which was returned
C17_Witness ==
    /\ spc = "done"
    /\ use_cache
    /\ subs = <<"s1">>
    /\ cachedUrls = SearchUrls
    /\ pages[SearchUrl("s1", "")].children # <<>>
    /\ \A i \in 1..Len(pages[SearchUrl("s1", "")].children) :
          ~Keep(pages[SearchUrl("s1", "")].children[i])
    /\ pages[SearchUrl("s1", "")].after = "a"
    /\ Len(pages[SearchUrl("s1", "a")].children) = 1
    /\ result = pages[SearchUrl("s1", "a")].children

\* C20: once the number of accumulated posts has reached limit no fetch is
\* issued any more, for the current community or a later one; with limit 0
\* no fetch is issued at all and the result is empty.
C20_NoFetchAtLimit ==
    [][ /\ Len(out) >= limit => (nfetch' = nfetch /\ lastFetch' = lastFetch)
        /\ limit = 0 => (lastFetch' = "none" /\ out' = <<>> /\ result' = <<>>)
      ]_vars

\* limit 1 was reached on the first page of the first of two communities; the
\* page had a cursor, yet it is the only page that was fetched
C20_Witness ==
    /\ spc = "done"
    /\ Len(subs) = 2
    /\ limit = 1
    /\ Len(result) = 1
    /\ lastPage.after = "a"
    /\ use_cache
    /\ cachedUrls = {SearchUrl("s1", "")}

----------------------------------------------------------------------------
(* Properties of fetch_comments, checked under SpecWalk *)

\* the nodes of the forest below the list ids, parents before their replies,
\* replies before later siblings
RECURSIVE PreOrder(_)
PreOrder(ids) ==
    IF ids = <<>> THEN <<>>
    ELSE <<Head(ids)>> \o PreOrder(ChildrenFrom(Head(ids), 1)) \o PreOrder(Tail(ids))

\* a node of kind comment whose body has a character that is not a blank
IsComment(n) ==
    /\ tree[n].kind = "t1"
    /\ \E i \in 1..Len(tree[n].body) : tree[n].body[i] # " "

AllComments == SelectSeq(PreOrder(ChildrenFrom(0, 1)), IsComment)

\* C9: fetch_comments returns the first min(max_comments, n) of the n
\* comments with a non-blank body, in depth-first pre-order.
C9_PreOrderPrefix ==
    (wpc = "done" /\ thread = "ok") =>
        /\ [i \in 1..Len(wresult) |-> wresult[i].id]
               = SubSeq(AllComments, 1, Min(max_comments, Len(AllComments)))
        /\ \A i \in 1..Len(wresult) :
               /\ wresult[i].body # <<>>
               /\ Head(wresult[i].body) # " "
               /\ wresult[i].body[Len(wresult[i].body)] # " "

\* the tree A -> [B, C], B -> [D] (A = 1, B = 2, C = 3, D = 4) gives A, B, D, C
C9_Witness ==
    /\ wpc = "done"
    /\ Len(tree) = 4
    /\ [i \in 1..4 |-> tree[i].parent] = <<0, 1, 1, 2>>
    /\ \A i \in 1..4 : tree[i].kind = "t1"
    /\ max_comments = 4
    /\ [i \in 1..Len(wresult) |-> wresult[i].id] = <<1, 2, 4, 3>>

\* C10: once the accumulator holds max_comments comments no further node is
\* visited, at any level of the recursion.
C10_HaltsAtCap ==
    [][Len(wout) >= max_comments => visited' = visited]_vars

\* C11: fetch_comments returns the empty list and does not raise when the
\* thread fetch fails, the fetched value is not a list, or it is a list with
\* fewer than 2 elements.
C11_EmptyOnMismatch ==
    thread \in {"error", "notlist", "short"} =>
        /\ wpc = "done"
        /\ wresult = <<>>
        /\ wout = <<>>
        /\ visited = <<>>

\* a one-element list was fetched for a thread that has comments
C11_Witness ==
    /\ thread = "short"
    /\ wpc = "done"
    /\ wresult = <<>>
    /\ Len(tree) >= 2

----------------------------------------------------------------------------
(* More properties of http_get_json, checked under SpecFetch *)

\* C16: every sleep the fetcher takes is the politeness delay that follows a
\* successful network fetch; a fetch served from the cache sleeps zero times
\* and the process is suspended nowhere else.
C16_OnlyPoliteSleeps ==
    /\ reqs = 0 => naps = <<>>
    /\ \A i \in 1..Len(naps) :
          /\ naps[i].why = "polite"
          /\ naps[i].attempt \in 1..Len(log)
          /\ log[naps[i].attempt] = "200"

\* C16 (amended): every sleep follows a network answer of the same attempt,
\* the politeness delay a successful fetch and the backoff delay a
\* rate-limited one; a fetch served from the cache sleeps zero times.
C16_SleepsFollowAnswers ==
    /\ reqs = 0 => naps = <<>>
    /\ Len(naps) <= Len(log)
    /\ \A i \in 1..Len(naps) :
          /\ naps[i].attempt \in 1..Len(log)
          /\ \/ naps[i].why = "polite" /\ log[naps[i].attempt] = "200"
             \/ naps[i].why = "backoff" /\ log[naps[i].attempt] = "429"
          /\ \A k \in 1..Len(naps) : k # i => naps[k].attempt # naps[i].attempt

\* a fetch backed off after a 429, then succeeded and slept the politeness
\* delay
C16_Witness ==
    /\ fpc = "idle"
    /\ retKind = "value"
    /\ log = <<"429", "200">>
    /\ Len(naps) = 2
    /\ naps[1].why = "backoff"
    /\ naps[2].why = "polite"

\* C19: a fetch call that ends in an error leaves the cache as it was before
\* the call: the cache changes only in the step in which a fetch whose body
\* parsed as JSON returns, that step adds the entry of the fetched url, and no
\* step rewrites or removes an entry that exists.
C19_CacheFrame ==
    [][ /\ (retKind' = "error" /\ fpc' = "idle")
            => (files' = files /\ exists' = exists)
        /\ (files' # files \/ exists' # exists)
            => /\ fpc = "loop" /\ fpc' = "idle"
               /\ retKind' = "value"
               /\ JsonOK(server[url])
               /\ retVal' = json_loads(server[url])
               /\ exists' = exists \cup {_sha1(url)}
               /\ JsonOK(files'[_sha1(url)])
        /\ exists \subseteq exists'
        /\ \A k \in exists : files'[k] = files[k] ]_vars

\* with an entry for the other url in the cache, a fetch gave up after five
\* answers 429; the cache holds that entry and no other
C19_Witness ==
    /\ fpc = "idle"
    /\ retKind = "error"
    /\ cache_dir # ""
    /\ log = <<"429", "429", "429", "429", "429">>
    /\ exists # {}
    /\ _sha1(url) \notin exists
    /\ \A k \in exists : JsonOK(files[k])

----------------------------------------------------------------------------
(* Properties of score_intent, checked under SpecScore *)

\* the weights of the rules of a table that match t, added up, in tenths
RECURSIVE SumOf(_, _, _)
SumOf(rules, i, t) ==
    IF i > Len(rules) THEN 0
    ELSE (IF Search(rules[i].rx, t) THEN rules[i].w ELSE 0)
         + SumOf(rules, i + 1, t)

\* the names of the rules of a table that match t, in table order
RECURSIVE NamesOf(_, _, _)
NamesOf(rules, i, t) ==
    IF i > Len(rules) THEN <<>>
    ELSE (IF Search(rules[i].rx, t) THEN <<rules[i].name>> ELSE <<>>)
         \o NamesOf(rules, i + 1, t)

\* eight times the spacing of the doubles around t/10, in units of 2^-53
Ulp8(t) ==
    IF t < 2 THEN 1
    ELSE IF t < 3 THEN 2
    ELSE IF t < 5 THEN 4
    ELSE IF t < 10 THEN 8
    ELSE IF t < 20 THEN 16
    ELSE IF t < 40 THEN 32
    ELSE IF t < 80 THEN 64
    ELSE 128

\* x is the double nearest to t/10 (t >= 0): |10 x - t| is below 5 ulp
IsDouble(x, t) ==
    IF t = 0 THEN x = Zero
    ELSE LET d == Exact(Times(10, x), D(-t * OneHi, 0))
             m == IF d.hi = 0 THEN d.lo
                  ELSE IF d.hi = -1 THEN Limb - d.lo
                  ELSE 100
         IN  m < 100 /\ 8 * m < 5 * Ulp8(t)

\* C12: for the set F of rules that match the text, the returned score is
\* max(0, sum of the weights of F) and signals holds the names of F once each
\* in table order, positive rules first, a matching negative rule included
\* also when the score was floored to 0.
C12_ScoreIsSum ==
    scpc = "done" =>
        /\ IsDouble(ir.score,
                    Max(0, SumOf(_INTENT_RULES, 1, text)
                           + SumOf(_NEGATIVE_RULES, 1, text)))
        /\ ir.signals = NamesOf(_INTENT_RULES, 1, text)
                        \o NamesOf(_NEGATIVE_RULES, 1, text)

----------------------------------------------------------------------------
(* Properties of the aggregator, checked under SpecScan *)

\* the leads emitted for origin o
LeadsFor(o) == {k \in 1..Len(leads) : leads[k].origin = o}

\* the intent score of post i and of comment j of post i
PostScore(i) == score_intent(WordsOf(PostLocals(posts[i]).text.v)).score
CommentScore(i, j) ==
    score_intent(WordsOf(Get(fetched[i][j], "body").v)).score

\* C13: a Lead is emitted exactly for the items whose intent score is at
\* least the threshold: one post Lead for every post of the crawler that
\* scores >= min_intent, one comment Lead for every comment of the walker
\* that scores >= min_intent, and no Lead for an item that scores below.
C13_EmitIffAtThreshold ==
    apc = "done" =>
        /\ \A i \in 1..Len(posts) :
              /\ Cardinality(LeadsFor(<<i, 0>>))
                    = IF Ge(PostScore(i), min_intent) THEN 1 ELSE 0
              /\ \A j \in 1..Len(fetched[i]) :
                    Cardinality(LeadsFor(<<i, j>>))
                        = IF Ge(CommentScore(i, j), min_intent) THEN 1 ELSE 0
        /\ \A k \in 1..Len(leads) :
              /\ Ge(leads[k].intent_score, min_intent)
              /\ leads[k].origin[1] \in 1..Len(posts)
              /\ leads[k].origin[2] \in 0..Len(fetched[leads[k].origin[1]])
              /\ leads[k].kind = IF leads[k].origin[2] = 0 THEN "post"
                                 ELSE "comment"

\* threshold 2.0: a post scoring exactly 2.0 and a comment of it are leads, a
\* post and a comment scoring less are not
C13_Witness ==
    /\ apc = "done"
    /\ min_intent = Literal(20)
    /\ \E k \in 1..Len(leads) :
          leads[k].kind = "post" /\ leads[k].intent_score = Literal(20)
    /\ \E k \in 1..Len(leads) : leads[k].kind = "comment"
    /\ \E i \in 1..Len(posts) : LeadsFor(<<i, 0>>) = {}
    /\ \E i \in 1..Len(posts) :
          \E j \in 1..Len(fetched[i]) : LeadsFor(<<i, j>>) = {}

\* the position in the final list of lead x
PosOf(x) == CHOOSE k \in 1..Len(leads) : leads[k] = x

Defaulted(x, f, dflt) == IF Truthy(Get(x, f)) THEN Get(x, f).v ELSE dflt

\* C15: no step of the crawler, the walker or the aggregator raises because
\* a field it reads is missing or null; the item is processed with the empty
\* or zero default in place of that field.
C15_NullSafe ==
    /\ apc # "raised"
    /\ \A k \in 1..Len(leads) :
          LET i == leads[k].origin[1]
              j == leads[k].origin[2]
              x == IF j = 0 THEN posts[i] ELSE fetched[i][j]
          IN  /\ leads[k].author = Defaulted(x, "author", <<>>)
              /\ leads[k].score = Defaulted(x, "score", 0)
              /\ leads[k].created_utc = Defaulted(x, "created_utc", 0)
              /\ leads[k].subreddit = Defaulted(posts[i], "subreddit", <<>>)
              /\ leads[k].title
                    = Strip(Defaulted(posts[i], "title", <<>>))
              /\ ~Truthy(Get(posts[i], "permalink"))
                    => leads[k].url = Defaulted(posts[i], "url", <<>>)

\* leads were made of a post with every field null or missing and of a
\* comment whose author and score were null, on a page with a null child
C15_Witness ==
    /\ apc = "done"
    /\ \E k \in 1..Len(leads) :
          /\ leads[k].kind = "post"
          /\ posts[leads[k].origin[1]] \in {PostNulls, EmptyDict}
          /\ leads[k].text = <<>>
    /\ \E k \in 1..Len(leads) :
          /\ leads[k].kind = "comment"
          /\ leads[k].author = <<>>
          /\ leads[k].text = <<"need">>

----------------------------------------------------------------------------
(* Properties of two concurrent runs, checked under SpecRuns *)

\* C18: when two runs fetch the same url with the same cache directory, under
\* every interleaving of the existence checks, writes and reads of the cache
\* file each fetch returns a complete parsed response that was served for the
\* url, never an error or a partial value caused by the other run, and the
\* cache file ends up holding the value of the run that wrote last.
C18_ConcurrentFetchesComplete ==
    /\ \A r \in Runs :
          rpc[r] = "done" =>
              /\ rret[r].kind = "value"
              /\ rret[r].val \in {json_loads(b) : b \in RunBodies}
    /\ ((\A r \in Runs : rpc[r] = "done") /\ closed # <<>>) =>
          /\ JsonOK(cdata)
          /\ json_loads(cdata) = robj[closed[Len(closed)]]

====
